---- MODULE Spec2Model ----
(***************************************************************************)
(* Model of the indentation parser and register-file reducer of            *)
(* python/parse_indent.py.                                                 *)
(*                                                                         *)
(* A file is a sequence of physical lines, a line is a sequence of         *)
(* one-character strings.  The state is the file iterator (the lines it    *)
(* has handed out, whether it is exhausted), the state of one read_lines   *)
(* object (__last, __undo, line_no), the call stack of parse_indent_level, *)
(* and the locals of parse_register_file.  One action is one iteration of  *)
(* the `for` loop of the innermost active call of parse_indent_level       *)
(* (including the call of next() it starts with), or one iteration of the  *)
(* block loop of parse_register_file.                                      *)
(***************************************************************************)
EXTENDS Integers, Sequences, FiniteSets

VARIABLES
    input,      \* the open file: the physical lines it has handed out
    pos,        \* number of lines the file iterator has handed out
    last,       \* read_lines.__last
    undo,       \* read_lines.__undo
    line_no,    \* read_lines.line_no
    stack,      \* active calls of parse_indent_level, innermost last
    parse,      \* value returned by parse_indented_file
    idx,        \* top-level nodes parse_register_file has digested
    result,     \* the dictionary parse_register_file builds
    pc,         \* "parse", "reduce", "done" or "failed"
    err,        \* the exception that ended the run
    ended,      \* the file iterator is exhausted
    fix_in,     \* named_registers.py: the arguments of a call of fixup_fields
    fix_out,    \* named_registers.py: what the call returned or raised
    runs,       \* the parses of two files, each with its own read_lines
    active,         \* sim_registers.py: pcap.active
    capture_count,  \* sim_registers.py: pcap.capture_count
    sample_count,   \* sim_registers.py: pcap.sample_count
    written,        \* the calls of write_reg made so far: block and register
    data            \* what the last call of read_data returned

\* The state of parse_indent.py
parser_vars ==
    <<input, pos, last, undo, line_no, stack, parse, idx, result, pc, err, ended>>

\* The state of named_registers.py
fixup_vars == <<fix_in, fix_out>>

\* Two runs of parse_indented_file side by side
two_vars == <<runs>>

\* The state of sim_registers.py
pcap_vars == <<active, capture_count, sample_count, written, data>>

\* The state outside the run of parse_register_file
elsewhere == <<fixup_vars, two_vars, pcap_vars>>

vars == <<parser_vars, elsewhere>>

----------------------------------------------------------------------------
(* Bounds of the model. *)

MaxLines == 4
MaxIndent == 2

----------------------------------------------------------------------------
(* Characters and strings. *)

SP == " "
NL == "\n"
HASH == "#"

\* str.split() with no separator splits on runs of whitespace
Whitespace == {" ", "\t", "\n", "\r"}

\* n spaces
Spaces(n) == [i \in 1..n |-> SP]

\* s[k:] of Python, k counted from 0
DropFirst(s, k) == SubSeq(s, k + 1, Len(s))

\* line.lstrip(' ')
RECURSIVE LStrip(_)
LStrip(line) ==
    IF line # <<>> /\ Head(line) = SP THEN LStrip(Tail(line)) ELSE line

\* The value of __last before the first line is read
None == [indent |-> -1, value |-> <<>>]

\* No exception
NoErr == [type |-> "none", line_no |-> 0, message |-> ""]

\* ParseFail(line_no, message)
ParseFail(n, message) == [type |-> "ParseFail", line_no |-> n, message |-> message]

\* str(ParseFail): 'Line %d: %s' % (line_no, message)
ParseFailStr(e) == <<"Line ", e.line_no, ": ", e.message>>

\* An exception that is no ParseFail: it has no line number
Raised(type, message) == [type |-> type, line_no |-> 0, message |-> message]

----------------------------------------------------------------------------
(* read_lines *)

\* read_line without the assertion that the line ends with a newline
RECURSIVE read_line_unasserted(_, _, _)
read_line_unasserted(file, p, n) ==
    IF p >= Len(file)
    THEN [kind |-> "stop", pos |-> p, line_no |-> n, line |-> None]
    ELSE LET line == file[p + 1]
             content == LStrip(line)
         IN  IF content = <<>>
             THEN [kind |-> "index", pos |-> p + 1, line_no |-> n + 1, line |-> None]
             ELSE IF content[1] \in {HASH, NL}
             THEN read_line_unasserted(file, p + 1, n + 1)
             ELSE [kind |-> "line", pos |-> p + 1, line_no |-> n + 1,
                   line |-> [indent |-> Len(line) - Len(content),
                             value |-> SubSeq(content, 1, Len(content) - 1)]]

\* read_line testing line[0] for a comment or blank line, not content[0]
RECURSIVE read_line_unstripped(_, _, _)
read_line_unstripped(file, p, n) ==
    IF p >= Len(file)
    THEN [kind |-> "stop", pos |-> p, line_no |-> n, line |-> None]
    ELSE LET line == file[p + 1]
             content == LStrip(line)
         IN  IF content = <<>>
             THEN [kind |-> "index", pos |-> p + 1, line_no |-> n + 1, line |-> None]
             ELSE IF line[1] \in {HASH, NL}
             THEN read_line_unstripped(file, p + 1, n + 1)
             ELSE IF content[Len(content)] # NL
             THEN [kind |-> "assert", pos |-> p + 1, line_no |-> n + 1, line |-> None]
             ELSE [kind |-> "line", pos |-> p + 1, line_no |-> n + 1,
                   line |-> [indent |-> Len(line) - Len(content),
                             value |-> SubSeq(content, 1, Len(content) - 1)]]

\* read_line counting only the lines it returns, not those it skips
RECURSIVE read_line_uncounted(_, _, _)
read_line_uncounted(file, p, n) ==
    IF p >= Len(file)
    THEN [kind |-> "stop", pos |-> p, line_no |-> n, line |-> None]
    ELSE LET line == file[p + 1]
             content == LStrip(line)
         IN  IF content = <<>>
             THEN [kind |-> "index", pos |-> p + 1, line_no |-> n + 1, line |-> None]
             ELSE IF content[1] \in {HASH, NL}
             THEN read_line_uncounted(file, p + 1, n)
             ELSE IF content[Len(content)] # NL
             THEN [kind |-> "assert", pos |-> p + 1, line_no |-> n + 1, line |-> None]
             ELSE [kind |-> "line", pos |-> p + 1, line_no |-> n + 1,
                   line |-> [indent |-> Len(line) - Len(content),
                             value |-> SubSeq(content, 1, Len(content) - 1)]]

\* read_lines.read_line, started with the file iterator at p and line_no at n.
\* It skips comment and blank lines, counting them, and yields
\*   kind "line":  the (indent, content) of the line it stopped at,
\*   kind "stop":  StopIteration of the exhausted file iterator,
\*   kind "index": IndexError of content[0] on a line of spaces with no newline,
\*   kind "assert": the failed assertion content[-1] == '\n',
\* with the position and line number it leaves behind.
RECURSIVE read_line(_, _, _)
read_line(file, p, n) ==
    IF p >= Len(file)
    THEN [kind |-> "stop", pos |-> p, line_no |-> n, line |-> None]
    ELSE LET line == file[p + 1]
             content == LStrip(line)
         IN  IF content = <<>>
             THEN [kind |-> "index", pos |-> p + 1, line_no |-> n + 1, line |-> None]
             ELSE IF content[1] \in {HASH, NL}
             THEN read_line(file, p + 1, n + 1)
             ELSE IF content[Len(content)] # NL
             THEN [kind |-> "assert", pos |-> p + 1, line_no |-> n + 1, line |-> None]
             ELSE [kind |-> "line", pos |-> p + 1, line_no |-> n + 1,
                   line |-> [indent |-> Len(line) - Len(content),
                             value |-> SubSeq(content, 1, Len(content) - 1)]]

\* __next__ that reads a line whether or not one was pushed back
next_rereads(s) == read_line(s.input, s.pos, s.line_no)

\* read_lines.__next__ on the reader state s: the pushed back line if there is
\* one, else the next line read
next(s) ==
    IF s.undo
    THEN [kind |-> "line", pos |-> s.pos, line_no |-> s.line_no, line |-> s.last]
    ELSE read_line(s.input, s.pos, s.line_no)

----------------------------------------------------------------------------
(* parse_indent_level *)

\* A Parse: [value, [Parse]]
Node(value, sub) == [value |-> value, sub |-> sub]

\* A call of parse_indent_level(new_indent, lines) and its local `result`
Frame(new_indent) == [new_indent |-> new_indent, result |-> <<>>]

\* result[0][1] = sub: the first node, not the last
SetFirstSub(res, sub) ==
    [res EXCEPT ![1] = Node(res[1].value, sub)]

\* result[-1][1] = sub
SetLastSub(res, sub) ==
    [res EXCEPT ![Len(res)] = Node(res[Len(res)].value, sub)]

\* `return result` of the innermost call of the stack st: the caller assigns it
\* to result[-1][1] and goes on with its loop; the outermost call returns it to
\* parse_indented_file
ReturnTo(st) ==
    LET top == st[Len(st)]
        rest == SubSeq(st, 1, Len(st) - 1)
    IN  IF rest = <<>>
        THEN <<>>
        ELSE [rest EXCEPT ![Len(rest)].result = SetLastSub(@, top.result)]

\* The state as one record, and the assignment of such a record to the state
Cur ==
    [input |-> input, pos |-> pos, last |-> last, undo |-> undo,
     line_no |-> line_no, stack |-> stack, parse |-> parse, idx |-> idx,
     result |-> result, pc |-> pc, err |-> err]

Set(s) ==
    /\ input' = s.input
    /\ pos' = s.pos
    /\ last' = s.last
    /\ undo' = s.undo
    /\ line_no' = s.line_no
    /\ stack' = s.stack
    /\ parse' = s.parse
    /\ idx' = s.idx
    /\ result' = s.result
    /\ pc' = s.pc
    /\ err' = s.err

\* The state after read_lines(open(file_name)), parse_indent_level(0, lines)
\* entered
Start(file) ==
    [input |-> file, pos |-> 0, last |-> None, undo |-> FALSE, line_no |-> 0,
     stack |-> <<Frame(0)>>, parse |-> <<>>, idx |-> 0,
     result |-> <<>>, pc |-> "parse", err |-> NoErr]

\* The state s after next() gave r: __last and __undo of __next__, the file
\* position and line_no of read_line
AfterNext(s, r) ==
    [s EXCEPT !.pos = r.pos, !.line_no = r.line_no,
              !.last = IF r.kind = "line" THEN r.line ELSE s.last,
              !.undo = IF r.kind = "line" THEN FALSE ELSE s.undo]

Top(s) == s.stack[Len(s.stack)]

\* Branch without the check for sub-fields already parsed
BranchNoDuplicate(s) ==
    LET r == next(s)
        f == s.stack[Len(s.stack)]
    IN  IF r.kind # "line" THEN r.kind
        ELSE IF r.line.indent < f.new_indent THEN "dedent"
        ELSE IF r.line.indent > f.new_indent
        THEN IF f.result = <<>> THEN "invalid" ELSE "nest"
        ELSE "append"

\* Branch taking a line indented more than new_indent as a further line of
\* this level when the last line has its sub-fields already
BranchAppendDeeper(s) ==
    LET r == next(s)
        f == s.stack[Len(s.stack)]
    IN  IF r.kind # "line" THEN r.kind
        ELSE IF r.line.indent < f.new_indent THEN "dedent"
        ELSE IF r.line.indent > f.new_indent
        THEN IF f.result = <<>> THEN "invalid"
             ELSE IF f.result[Len(f.result)].sub # <<>> THEN "append"
             ELSE "nest"
        ELSE "append"

\* The branch the loop iteration of the innermost call takes in state s
Branch(s) ==
    LET r == next(s)
        f == Top(s)
    IN  IF r.kind # "line" THEN r.kind
        ELSE IF r.line.indent < f.new_indent THEN "dedent"
        ELSE IF r.line.indent > f.new_indent
        THEN IF f.result = <<>> THEN "invalid"
             ELSE IF f.result[Len(f.result)].sub # <<>> THEN "duplicate"
             ELSE "nest"
        ELSE "append"

\* `return result` in state s: to the calling parse_indent_level, or from
\* parse_indented_file to parse_register_file
Return(s) ==
    IF Len(s.stack) = 1
    THEN [s EXCEPT !.stack = <<>>, !.parse = Top(s).result, !.pc = "reduce"]
    ELSE [s EXCEPT !.stack = ReturnTo(s.stack)]

\* StopIteration swallowed inside the loop, the call not returning
EndOfInputStay(s) == AfterNext(s, next(s))

\* The file is exhausted: StopIteration ends the `for` loop
EndOfInputFn(s) == Return(AfterNext(s, next(s)))

\* read_line raises: IndexError or AssertionError
ReadFailFn(s) ==
    LET r == next(s)
    IN  [AfterNext(s, r) EXCEPT
            !.pc = "failed",
            !.err = IF r.kind = "index"
                    THEN Raised("IndexError", "string index out of range")
                    ELSE Raised("AssertionError", "Unexpected end of input")]

\* indent < new_indent: break, with lines.undo() forgotten
DedentNoUndo(s) == Return(AfterNext(s, next(s)))

\* indent < new_indent: lines.undo(); break
DedentFn(s) == Return([AfterNext(s, next(s)) EXCEPT !.undo = TRUE])

\* indent = new_indent: result.append([value, []])
AppendFn(s) ==
    LET r == next(s)
    IN  [AfterNext(s, r) EXCEPT
            !.stack[Len(s.stack)].result = Append(@, Node(r.line.value, <<>>))]

\* The recursive call made with lines.undo() forgotten
NestNoUndo(s) ==
    LET r == next(s)
    IN  [AfterNext(s, r) EXCEPT !.stack = Append(@, Frame(r.line.indent))]

\* indent > new_indent, both checks pass:
\* result[-1][1] = parse_indent_level(indent, lines)
NestFn(s) ==
    LET r == next(s)
    IN  [AfterNext(s, r) EXCEPT
            !.undo = TRUE,
            !.stack = Append(@, Frame(r.line.indent))]

\* indent > new_indent and a check fails: lines.check raises ParseFail
CheckFailFn(s) ==
    LET r == next(s)
        a == [AfterNext(s, r) EXCEPT !.undo = TRUE]
    IN  [a EXCEPT
            !.pc = "failed",
            !.err = ParseFail(a.line_no,
                              IF Branch(s) = "invalid" THEN "Invalid indentation"
                              ELSE "Sub-fields already parsed")]

\* One iteration of the loop of the innermost parse_indent_level
ParseStep(s) ==
    LET b == Branch(s)
    IN  CASE b = "stop" -> EndOfInputFn(s)
          [] b \in {"index", "assert"} -> ReadFailFn(s)
          [] b = "dedent" -> DedentFn(s)
          [] b = "append" -> AppendFn(s)
          [] b = "nest" -> NestFn(s)
          [] b \in {"invalid", "duplicate"} -> CheckFailFn(s)

\* parse_indented_file run to its end on the state s
RECURSIVE RunParse(_)
RunParse(s) == IF s.pc = "parse" THEN RunParse(ParseStep(s)) ELSE s

----------------------------------------------------------------------------
(* parse_register_file *)

\* s.lstrip() on whitespace
RECURSIVE SkipSpace(_)
SkipSpace(s) ==
    IF s # <<>> /\ Head(s) \in Whitespace THEN SkipSpace(Tail(s)) ELSE s

\* Length of the leading run of non-whitespace characters of s
RECURSIVE TokenLen(_)
TokenLen(s) ==
    IF s = <<>> \/ Head(s) \in Whitespace THEN 0 ELSE 1 + TokenLen(Tail(s))

\* str.split(): the maximal runs of non-whitespace characters, in order
RECURSIVE Split(_)
Split(s) ==
    LET t == SkipSpace(s)
        n == TokenLen(t)
    IN  IF t = <<>> THEN <<>>
        ELSE <<SubSeq(t, 1, n)>> \o Split(DropFirst(t, n))

\* str.split(None, 1): the first token, then the rest of the string after the
\* whitespace that follows it, if anything is left
SplitFirst(s) ==
    LET t == SkipSpace(s)
        n == TokenLen(t)
        rest == SkipSpace(DropFirst(t, n))
    IN  IF t = <<>> THEN <<>>
        ELSE IF rest = <<>> THEN <<SubSeq(t, 1, n)>>
        ELSE <<SubSeq(t, 1, n), rest>>

\* The assertion made on the first field only
HasSubFieldFirst(fields_in) == fields_in # <<>> /\ fields_in[1].sub # <<>>

\* The loop over fields_in reaches a field with sub-fields: `assert not sub_field`
HasSubField(fields_in) == \E i \in 1..Len(fields_in) : fields_in[i].sub # <<>>

\* fields, when the loop over fields_in completes
Fields(fields_in) == [i \in 1..Len(fields_in) |-> SplitFirst(fields_in[i].value)]

\* A dictionary that keeps the entry it already holds for a key
DictSetFirst(d, reg, entry) ==
    [k \in (DOMAIN d) \cup {reg} |-> IF k \in DOMAIN d THEN d[k] ELSE entry]

\* result[reg] = (value, fields)
DictSet(d, reg, entry) ==
    [k \in (DOMAIN d) \cup {reg} |-> IF k = reg THEN entry ELSE d[k]]

\* The block loop taking the first two tokens of a header of two or more
ReduceBranchAtLeastTwo(s) ==
    IF s.idx >= Len(s.parse) THEN "return"
    ELSE LET node == s.parse[s.idx + 1]
         IN  IF Len(Split(node.value)) < 2 THEN "unpack"
             ELSE IF HasSubField(node.sub) THEN "assert"
             ELSE "block"

\* What the iteration of the block loop on the next top-level node does
ReduceBranch(s) ==
    IF s.idx >= Len(s.parse) THEN "return"
    ELSE LET node == s.parse[s.idx + 1]
         IN  IF Len(Split(node.value)) # 2 THEN "unpack"
             ELSE IF HasSubField(node.sub) THEN "assert"
             ELSE "block"

\* One iteration of the block loop that completes
ReduceBlockFn(s) ==
    LET node == s.parse[s.idx + 1]
        reg_value == Split(node.value)
    IN  [s EXCEPT
            !.idx = @ + 1,
            !.result = DictSet(@, reg_value[1], <<reg_value[2], Fields(node.sub)>>)]

\* One iteration of the block loop that raises: ValueError of the unpacking
\* `reg, value = reg_value.split()`, or AssertionError of `assert not sub_field`
ReduceFailFn(s) ==
    [s EXCEPT
        !.pc = "failed",
        !.err = IF ReduceBranch(s) = "unpack"
                THEN Raised("ValueError", "unpack")
                ELSE Raised("AssertionError", "")]

\* return result
ReduceReturnFn(s) == [s EXCEPT !.pc = "done"]

\* One iteration of the block loop, or the return after the last one
ReduceStep(s) ==
    LET b == ReduceBranch(s)
    IN  CASE b = "block" -> ReduceBlockFn(s)
          [] b \in {"unpack", "assert"} -> ReduceFailFn(s)
          [] b = "return" -> ReduceReturnFn(s)

\* The block loop of parse_register_file run to its end on the state s
RECURSIVE RunReduce(_)
RunReduce(s) == IF s.pc = "reduce" THEN RunReduce(ReduceStep(s)) ELSE s

\* parse_register_file on a file that parse_indented_file digests to the tree p
Reduce(p) ==
    RunReduce([Start(<<>>) EXCEPT !.stack = <<>>, !.parse = p, !.pc = "reduce"])

----------------------------------------------------------------------------
(* The file.  Its lines are chosen as the file iterator hands them out:      *)
(* `input` holds the lines handed out so far, `ended` tells that the         *)
(* iterator has raised StopIteration.  What the file holds after the line a  *)
(* failure is raised on is never read.                                       *)

\* Contents of significant lines: a name, a name with one value, a name with
\* two values
SigBodies == { <<"a">>, <<"b", " ", "0">>, <<"c", " ", "0", " ", "1">> }

\* Contents of the lines read_line skips: a comment and nothing
SkipBodies == { <<HASH>>, <<>> }

\* A terminated physical line
Line(indent, body) == Spaces(indent) \o body \o <<NL>>

\* Significant lines, and comment and blank lines at the least and the
\* greatest indent
SigLines == { Line(i, b) : i \in 0..MaxIndent, b \in SigBodies }

SkipLines == { Line(i, b) : i \in {0, MaxIndent}, b \in SkipBodies }

\* A last line whose terminator is missing: significant, a comment, or spaces
UnterminatedLines ==
    { Spaces(i) \o b : i \in 0..MaxIndent, b \in SigBodies }
        \cup { Spaces(i) \o <<HASH>> : i \in {0, MaxIndent} }
        \cup { Spaces(i) : i \in {MaxIndent} \ {0} }

\* Sequences of at most k skipped lines
SkipSeqs(k) == UNION { [1..j -> SkipLines] : j \in 0..k }

\* What one call of read_line can take from a file of at most k more lines:
\* skipped lines up to the end of the file, or skipped lines and then a
\* significant line or an unterminated last line
ChunksOf(k) ==
    IF k <= 0 THEN { <<>> }
    ELSE SkipSeqs(k) \cup
         { sk \o <<e>> : sk \in SkipSeqs(k - 1), e \in SigLines \cup UnterminatedLines }

\* The ways a call of read_line ends
ReadKinds == {"stop", "index", "assert", "line"}

\* The chunks by the number of lines the file may still hold and by the way
\* read_line ends on them.  read_line looks at no line before the one it
\* starts at, so what it does with a chunk is what it does with the chunk as
\* a file; it takes every line of the chunk.
Chunks ==
    [k \in 0..MaxLines |->
        [kind \in ReadKinds |->
            { ext \in ChunksOf(k) :
                LET r == read_line(ext, 0, 0)
                IN  r.pos = Len(ext) /\ r.kind = kind }]]

\* The example of the header comment of parse_indent.py
ExampleFile ==
    << Line(0, <<"a">>), Line(4, <<"b">>), Line(8, <<"c">>), Line(4, <<"d">>) >>

\* The lines the file can hand out to a call of next() that ends in one of the
\* ways `kinds`: none when the pushed back line is returned or the file has
\* ended; else a chunk of a file of at most MaxLines lines, or the next line
\* of the example file
Feeds(kinds) ==
    IF undo \/ ended THEN { <<>> }
    ELSE UNION { Chunks[IF Len(input) >= MaxLines THEN 0 ELSE MaxLines - Len(input)][kind] :
                 kind \in kinds }
         \cup (IF Len(input) < Len(ExampleFile)
                  /\ input = SubSeq(ExampleFile, 1, Len(input))
                  /\ "line" \in kinds
               THEN { <<ExampleFile[Len(input) + 1]>> }
               ELSE {})

\* The state with the lines ext handed out by the file
Fed(ext) == [Cur EXCEPT !.input = input \o ext]

----------------------------------------------------------------------------
(* The state machine. *)

\* The state is the record s
Is(s) ==
    /\ input = s.input
    /\ pos = s.pos
    /\ last = s.last
    /\ undo = s.undo
    /\ line_no = s.line_no
    /\ stack = s.stack
    /\ parse = s.parse
    /\ idx = s.idx
    /\ result = s.result
    /\ pc = s.pc
    /\ err = s.err

\* No call of fixup_fields made
FixupIdle ==
    /\ fix_in = [name |-> <<>>, value |-> <<>>]
    /\ fix_out = [kind |-> "none"]

\* No second run of parse_indented_file
TwoIdle == runs = <<>>

\* sim_registers.py as imported: pcap = PCAP(), no register written, no data
\* read
PcapIdle ==
    /\ active = FALSE
    /\ capture_count = 0
    /\ sample_count = 0
    /\ written = <<>>
    /\ data = [kind |-> "none"]

\* Nothing but the run of parse_register_file is going on
ElsewhereIdle == FixupIdle /\ TwoIdle /\ PcapIdle

Init == Is(Start(<<>>)) /\ ended = FALSE /\ ElsewhereIdle

EndOfInput ==
    /\ pc = "parse"
    /\ \E ext \in Feeds({"stop"}) :
          LET s == Fed(ext)
          IN  Branch(s) = "stop" /\ Set(EndOfInputFn(s))
    /\ ended' = TRUE
    /\ UNCHANGED elsewhere

ReadFail ==
    /\ pc = "parse"
    /\ \E ext \in Feeds({"index", "assert"}) :
          LET s == Fed(ext)
          IN  Branch(s) \in {"index", "assert"} /\ Set(ReadFailFn(s))
    /\ UNCHANGED <<ended, elsewhere>>

Dedent ==
    /\ pc = "parse"
    /\ \E ext \in Feeds({"line"}) :
          LET s == Fed(ext)
          IN  Branch(s) = "dedent" /\ Set(DedentFn(s))
    /\ UNCHANGED <<ended, elsewhere>>

AppendLine ==
    /\ pc = "parse"
    /\ \E ext \in Feeds({"line"}) :
          LET s == Fed(ext)
          IN  Branch(s) = "append" /\ Set(AppendFn(s))
    /\ UNCHANGED <<ended, elsewhere>>

Nest ==
    /\ pc = "parse"
    /\ \E ext \in Feeds({"line"}) :
          LET s == Fed(ext)
          IN  Branch(s) = "nest" /\ Set(NestFn(s))
    /\ UNCHANGED <<ended, elsewhere>>

CheckFail ==
    /\ pc = "parse"
    /\ \E ext \in Feeds({"line"}) :
          LET s == Fed(ext)
          IN  Branch(s) \in {"invalid", "duplicate"} /\ Set(CheckFailFn(s))
    /\ UNCHANGED <<ended, elsewhere>>

ReduceBlock ==
    /\ pc = "reduce" /\ ReduceBranch(Cur) = "block" /\ Set(ReduceBlockFn(Cur))
    /\ UNCHANGED <<ended, elsewhere>>

ReduceFail ==
    /\ pc = "reduce" /\ ReduceBranch(Cur) \in {"unpack", "assert"}
    /\ Set(ReduceFailFn(Cur))
    /\ UNCHANGED <<ended, elsewhere>>

ReduceReturn ==
    /\ pc = "reduce" /\ ReduceBranch(Cur) = "return" /\ Set(ReduceReturnFn(Cur))
    /\ UNCHANGED <<ended, elsewhere>>

Next ==
    \/ EndOfInput
    \/ ReadFail
    \/ Dedent
    \/ AppendLine
    \/ Nest
    \/ CheckFail
    \/ ReduceBlock
    \/ ReduceFail
    \/ ReduceReturn

Spec == Init /\ [][Next]_vars

----------------------------------------------------------------------------
(* parse_register_file on register files: blocks at indent 0, each with its  *)
(* fields one level deeper.                                                  *)

MaxBlocks == 3

\* Block headers: two names, two bases, and a header without a base
RegHeaders ==
    { <<"a", " ", "0">>, <<"a", " ", "1">>, <<"b", " ", "0">>, <<"a">> }

\* The field lines of a block
RegFieldLists ==
    { <<>>, << <<"c", " ", "0">> >>, << <<"d", " ", "1">> >> }

\* The parses of register files of at most MaxBlocks blocks
RegBlocks ==
    { Node(h, [i \in 1..Len(fl) |-> Node(fl[i], <<>>)]) :
        h \in RegHeaders, fl \in RegFieldLists }

RegTrees == UNION { [1..n -> RegBlocks] : n \in 0..MaxBlocks }

\* The register file of the parse p
RECURSIVE FileOf(_)
FileOf(p) ==
    IF p = <<>> THEN <<>>
    ELSE << Line(0, Head(p).value) >>
         \o [i \in 1..Len(Head(p).sub) |-> Line(1, Head(p).sub[i].value)]
         \o FileOf(Tail(p))

\* parse_register_file has called parse_indented_file on a register file
InitReduce ==
    /\ \E p \in RegTrees : Is(RunParse(Start(FileOf(p))))
    /\ ended = TRUE
    /\ ElsewhereIdle

NextReduce ==
    \/ ReduceBlock
    \/ ReduceFail
    \/ ReduceReturn

SpecReduce == InitReduce /\ [][NextReduce]_vars

----------------------------------------------------------------------------
(* server/named_registers.py: fixup_fields *)

MaxTokens == 4

Digits == <<"0", "1", "2", "3", "4", "5", "6", "7", "8", "9">>

\* The value of a decimal digit
DigitVal(c) == (CHOOSE i \in 1..10 : Digits[i] = c) - 1

\* The value of a string of decimal digits
RECURSIVE DecVal(_)
DecVal(str) ==
    IF str = <<>> THEN 0
    ELSE 10 * DecVal(SubSeq(str, 1, Len(str) - 1)) + DigitVal(str[Len(str)])

\* The digits of a token after its sign
Unsigned(tok) ==
    IF tok # <<>> /\ tok[1] \in {"+", "-"} THEN Tail(tok) ELSE tok

\* int(tok) does not raise ValueError: an optional sign and decimal digits
IsInt(tok) ==
    /\ Unsigned(tok) # <<>>
    /\ \A i \in 1..Len(Unsigned(tok)) : \E d \in 1..10 : Digits[d] = Unsigned(tok)[i]

\* int(tok)
int(tok) ==
    IF tok[1] = "-" THEN 0 - DecVal(Unsigned(tok)) ELSE DecVal(Unsigned(tok))

\* return name, start, count
Fixed(name, start, count) ==
    [kind |-> "return", name |-> name, start |-> start, count |-> count]

\* An exception leaving fixup_fields
FixRaised(type) == [kind |-> "raise", type |-> type]

\* fixup_fields counting the elements between start and end
fixup_fields_exclusive(name, value) ==
    LET values == Split(value)
    IN  IF values = <<>> THEN FixRaised("IndexError")
        ELSE IF ~IsInt(values[1]) THEN FixRaised("ValueError")
        ELSE IF Len(values) > 1
        THEN IF Len(values) # 3 THEN FixRaised("ValueError")
             ELSE IF values[2] # <<".", ".">> THEN FixRaised("AssertionError")
             ELSE IF ~IsInt(values[3]) THEN FixRaised("ValueError")
             ELSE Fixed(name, int(values[1]), int(values[3]) - int(values[1]))
        ELSE Fixed(name, int(values[1]), 1)

\* fixup_fields(name, value): what it returns or the exception it raises.
\* values[0] of no token raises IndexError, int() of a token that is no integer
\* and the unpacking of other than two further tokens raise ValueError, a
\* middle token other than '..' fails the assertion 'Malformed range'.
fixup_fields(name, value) ==
    LET values == Split(value)
    IN  IF values = <<>> THEN FixRaised("IndexError")
        ELSE IF ~IsInt(values[1]) THEN FixRaised("ValueError")
        ELSE IF Len(values) > 1
        THEN IF Len(values) # 3 THEN FixRaised("ValueError")
             ELSE IF values[2] # <<".", ".">> THEN FixRaised("AssertionError")
             ELSE IF ~IsInt(values[3]) THEN FixRaised("ValueError")
             ELSE Fixed(name, int(values[1]), int(values[3]) - int(values[1]) + 1)
        ELSE Fixed(name, int(values[1]), 1)

\* Tokens of field values: integers, the range mark, and tokens that are
\* neither
FixTokens ==
    { <<"8">>, <<"1", "4">>, <<"2", "0">>, <<".", ".">>, <<"-">>, <<"x">> }

\* The tokens joined by single spaces
RECURSIVE Join(_)
Join(toks) ==
    IF toks = <<>> THEN <<>>
    ELSE IF Len(toks) = 1 THEN toks[1]
    ELSE toks[1] \o <<SP>> \o Join(Tail(toks))

\* Field values of at most MaxTokens tokens, and a range written with runs of
\* spaces and a trailing space
FixValues ==
    { Join(toks) : toks \in UNION { [1..n -> FixTokens] : n \in 0..MaxTokens } }
        \cup { <<"8", " ", " ", ".", ".", " ", " ", "1", "4", " ">> }

FixNames == { <<"c">>, <<"d">> }

InitFixup ==
    /\ Is(Start(<<>>)) /\ ended = FALSE
    /\ fix_in \in [name : FixNames, value : FixValues]
    /\ fix_out = [kind |-> "none"]
    /\ TwoIdle /\ PcapIdle

\* The call returns
FixupReturn ==
    /\ fix_out.kind = "none"
    /\ fixup_fields(fix_in.name, fix_in.value).kind = "return"
    /\ fix_out' = fixup_fields(fix_in.name, fix_in.value)
    /\ UNCHANGED <<parser_vars, fix_in, two_vars, pcap_vars>>

\* The call raises
FixupRaise ==
    /\ fix_out.kind = "none"
    /\ fixup_fields(fix_in.name, fix_in.value).kind = "raise"
    /\ fix_out' = fixup_fields(fix_in.name, fix_in.value)
    /\ UNCHANGED <<parser_vars, fix_in, two_vars, pcap_vars>>

NextFixup ==
    \/ FixupReturn
    \/ FixupRaise

SpecFixup == InitFixup /\ [][NextFixup]_vars

----------------------------------------------------------------------------
(* Two runs of parse_indented_file, each on its own read_lines object and    *)
(* its own open file, their loop iterations interleaved.                      *)

\* The files of the two runs: the example; comments and a dedent closing two
\* levels; sub-fields parsed twice; an indented first line; a last line
\* without terminator
TwoFiles ==
    { ExampleFile,
      << Line(0, <<HASH>>), Line(0, <<"a">>), Line(1, <<"b">>), Line(2, <<"c">>),
         Line(2, <<>>), Line(0, <<"d">>) >>,
      << Line(0, <<"a">>), Line(2, <<"b">>), Line(1, <<"c">>) >>,
      << Line(0, <<>>), Line(1, <<"a">>) >>,
      << Line(0, <<"a">>), Line(1, <<"b">>), <<"c">> >> }

\* The state of all runs after run i has taken a step to the state s, the
\* fields of read_lines being attributes of the class, one for all instances
PublishShared(rs, i, s) ==
    [j \in DOMAIN rs |->
        IF j = i THEN s
        ELSE [rs[j] EXCEPT !.last = s.last, !.undo = s.undo, !.line_no = s.line_no]]

\* The state of all runs after run i has taken a step to the state s:
\* __init__ gives every read_lines object its own __input, __last, __undo and
\* line_no, the locals of parse_indent_level are those of the call
Publish(rs, i, s) == [rs EXCEPT ![i] = s]

InitTwo ==
    /\ Is(Start(<<>>)) /\ ended = FALSE
    /\ FixupIdle /\ PcapIdle
    /\ runs \in [{1, 2} -> { Start(f) : f \in TwoFiles }]

\* One iteration of the loop of the innermost parse_indent_level of run i
StepRun(i) ==
    /\ runs[i].pc = "parse"
    /\ runs' = Publish(runs, i, ParseStep(runs[i]))
    /\ UNCHANGED <<parser_vars, fixup_vars, pcap_vars>>

StepOne == StepRun(1)

StepTwo == StepRun(2)

NextTwo ==
    \/ StepOne
    \/ StepTwo

SpecTwo == InitTwo /\ [][NextTwo]_vars

----------------------------------------------------------------------------
(* One run of parse_indented_file on a file given as a whole, the            *)
(* interpreter running it to its end.                                        *)

\* The lines of the files: a line at every indent, a comment line, and a last
\* line without terminator
AloneLines ==
    { Line(i, <<"a">>) : i \in 0..MaxIndent } \cup { Line(0, <<HASH>>), <<"a">> }

\* The files of at most MaxLines lines
AloneFiles == UNION { [1..n -> AloneLines] : n \in 0..MaxLines }

InitAlone ==
    /\ Is(Start(<<>>)) /\ ended = FALSE
    /\ FixupIdle /\ PcapIdle
    /\ runs \in [{1} -> { Start(f) : f \in AloneFiles }]

NextAlone == StepOne

\* The interpreter keeps running the program: the next loop iteration is
\* taken as long as there is one
SpecAlone == InitAlone /\ [][NextAlone]_vars /\ WF_vars(StepOne)

----------------------------------------------------------------------------
(* python/sim_registers.py: the simulated PCAP block *)

MaxWrites == 4
MaxSamples == 2

\* Register names from *REG
PCAP_START_WRITE == 8
PCAP_WRITE == 9
PCAP_ARM == 13
PCAP_DISARM == 14

\* REG.PCAP_REGISTERS = range(8, 15)
PCAP_REGISTERS == 8..14

\* The fields of the PCAP object in the state
Pcap == [active |-> active, capture_count |-> capture_count, sample_count |-> sample_count]

\* write_pcap leaving sample_count alone on PCAP_START_WRITE
write_pcap_keeps_samples(p, reg) ==
    IF reg = PCAP_START_WRITE THEN [p EXCEPT !.capture_count = 0]
    ELSE IF reg = PCAP_WRITE THEN [p EXCEPT !.capture_count = @ + 1]
    ELSE IF reg = PCAP_ARM THEN [p EXCEPT !.active = TRUE]
    ELSE IF reg = PCAP_DISARM THEN [p EXCEPT !.active = FALSE]
    ELSE p

\* PCAP.write_pcap(reg, value): the value is not looked at
write_pcap(p, reg) ==
    IF reg = PCAP_START_WRITE THEN [p EXCEPT !.capture_count = 0, !.sample_count = 0]
    ELSE IF reg = PCAP_WRITE THEN [p EXCEPT !.capture_count = @ + 1]
    ELSE IF reg = PCAP_ARM THEN [p EXCEPT !.active = TRUE]
    ELSE IF reg = PCAP_DISARM THEN [p EXCEPT !.active = FALSE]
    ELSE p

\* REG.write(num, reg, value)
REG_write(p, reg) == IF reg \in PCAP_REGISTERS THEN write_pcap(p, reg) ELSE p

\* write_reg(block, num, reg, value): block 0 is REG, the registers of every
\* other block ignore writes
write_reg(p, block, reg) == IF block = 0 THEN REG_write(p, reg) ELSE p

\* numpy.arange(count, dtype = numpy.uint32) + 256 * samples: the words stay
\* far below 2^32 for the counts reached here
Samples(count, samples) == [i \in 1..count |-> (i - 1) + 256 * samples]

\* The blocks and registers written: the four registers of PCAP, one of
\* PCAP_REGISTERS that PCAP does not know, one outside, and a register of
\* another block
WriteTargets ==
    { <<0, r>> : r \in {PCAP_START_WRITE, PCAP_WRITE, 12, PCAP_ARM, PCAP_DISARM, 15} }
        \cup { <<1, PCAP_ARM>> }

InitPcap ==
    /\ Is(Start(<<>>)) /\ ended = FALSE
    /\ FixupIdle /\ TwoIdle
    /\ PcapIdle

\* write_reg(block, num, reg, value)
WriteReg ==
    /\ Len(written) < MaxWrites
    /\ \E t \in WriteTargets, value \in {0, 1} :
          LET p == write_reg(Pcap, t[1], t[2])
          IN  /\ active' = p.active
              /\ capture_count' = p.capture_count
              /\ sample_count' = p.sample_count
              /\ written' = Append(written, t)
    /\ UNCHANGED <<parser_vars, fixup_vars, two_vars, data>>

\* read_data(length), active and more than 100 ms after the last update
ReadData ==
    /\ active
    /\ sample_count < MaxSamples
    /\ data' = [kind |-> "bytes", words |-> Samples(capture_count, sample_count)]
    /\ sample_count' = sample_count + 1
    /\ UNCHANGED <<parser_vars, fixup_vars, two_vars, active, capture_count, written>>

\* read_data(length), active and within 100 ms of the last update: b''
ReadDataPaced ==
    /\ active
    /\ data' = [kind |-> "bytes", words |-> <<>>]
    /\ UNCHANGED <<parser_vars, fixup_vars, two_vars, active, capture_count,
                   sample_count, written>>

\* read_data(length), not active: None
ReadDataIdle ==
    /\ ~active
    /\ data' = [kind |-> "None"]
    /\ UNCHANGED <<parser_vars, fixup_vars, two_vars, active, capture_count,
                   sample_count, written>>

NextPcap ==
    \/ WriteReg
    \/ ReadData
    \/ ReadDataPaced
    \/ ReadDataIdle

SpecPcap == InitPcap /\ [][NextPcap]_vars

----------------------------------------------------------------------------
(* What the claims speak of: the significant lines of the file. *)

\* A comment line: its first non-space character is '#'
IsComment(line) ==
    LET c == LStrip(line) IN c # <<>> /\ Head(c) = HASH

\* A blank line: only spaces before the terminator
IsBlank(line) == LStrip(line) = <<NL>>

Significant(line) ==
    LET c == LStrip(line) IN ~(c # <<>> /\ Head(c) = HASH) /\ c # <<NL>>

\* The file with its comment and blank lines removed
Strip(file) == SelectSeq(file, Significant)

\* Indent and content of a line
IndentOf(line) == Len(line) - Len(LStrip(line))

ContentOf(line) ==
    LET c == LStrip(line)
    IN  IF c # <<>> /\ c[Len(c)] = NL THEN SubSeq(c, 1, Len(c) - 1) ELSE c

\* The significant lines of the file, each as its indent and content
RECURSIVE SigOf(_)
SigOf(file) ==
    IF file = <<>> THEN <<>>
    ELSE (IF Significant(Head(file))
          THEN << [indent |-> IndentOf(Head(file)), value |-> ContentOf(Head(file))] >>
          ELSE <<>>) \o SigOf(Tail(file))

\* The file has lines and its last line has no terminator
LastUnterminated(file) ==
    file # <<>> /\ file[Len(file)][Len(file[Len(file)])] # NL

\* The significant lines read_line can return: an unterminated last line is
\* never returned
Readable(file) ==
    IF LastUnterminated(file) /\ Significant(file[Len(file)])
    THEN SigOf(SubSeq(file, 1, Len(file) - 1))
    ELSE SigOf(file)

\* parse_indent_level(0, lines) has returned
Parsed == stack = <<>>

\* parse_indent_level(0, lines) has just returned to parse_indented_file
ParseReturned == stack = <<>> /\ pc = "reduce" /\ idx = 0

\* The run failed inside parse_indent_level
ParseFailed == pc = "failed" /\ stack # <<>>

\* parse_indented_file has just ended, one way or the other
ParseEnded == ParseReturned \/ ParseFailed

\* parse_register_file has ended, the file parsed
Reduced == Parsed /\ pc \in {"done", "failed"}

DuplicateNesting ==
    pc = "failed" /\ err.type = "ParseFail" /\ err.message = "Sub-fields already parsed"

InvalidIndentation ==
    pc = "failed" /\ err.type = "ParseFail" /\ err.message = "Invalid indentation"

\* The elements of a finite set of numbers in increasing order
RECURSIVE Sorted(_)
Sorted(S) ==
    IF S = {} THEN <<>>
    ELSE LET m == CHOOSE x \in S : \A y \in S : x <= y
         IN  <<m>> \o Sorted(S \ {m})

\* The nearest line before line j of strictly smaller indent, 0 if there is none
ParentOf(L, j) ==
    LET above == { k \in 1..(j - 1) : L[k].indent < L[j].indent }
    IN  IF above = {} THEN 0 ELSE CHOOSE k \in above : \A m \in above : m <= k

\* The trees of the lines whose parent is line k, in input order
RECURSIVE TreesUnder(_, _)
TreesUnder(L, k) ==
    LET kids == Sorted({ j \in 1..Len(L) : ParentOf(L, j) = k })
    IN  [i \in 1..Len(kids) |-> Node(L[kids[i]].value, TreesUnder(L, kids[i]))]

\* Pre-order traversal of a list of trees: the line contents
RECURSIVE PreOrder(_)
PreOrder(trees) ==
    IF trees = <<>> THEN <<>>
    ELSE <<Head(trees).value>> \o PreOrder(Head(trees).sub) \o PreOrder(Tail(trees))

\* Number of nodes of the results of the active calls
RECURSIVE NodeCount(_)
NodeCount(st) ==
    IF st = <<>> THEN 0 ELSE Len(PreOrder(Head(st).result)) + NodeCount(Tail(st))

\* Physical line number of the j-th significant line of the file: j plus the
\* number of comment and blank lines before it
RECURSIVE PhysicalLine(_, _)
PhysicalLine(file, j) ==
    IF file = <<>> THEN 0
    ELSE IF Significant(Head(file))
    THEN IF j = 1 THEN 1 ELSE 1 + PhysicalLine(Tail(file), j - 1)
    ELSE 1 + PhysicalLine(Tail(file), j)

\* Indents of the lines before line j that are still open at line j: every
\* line after them and before j is indented more
OpenIndents(L, j) ==
    { L[k].indent : k \in { k \in 1..(j - 1) :
          \A m \in (k + 1)..(j - 1) : L[m].indent > L[k].indent } }

\* Line j dedents to an indent that is no open level
BetweenLevels(L, j) ==
    /\ j > 1
    /\ L[j].indent < L[j - 1].indent
    /\ L[j].indent \notin OpenIndents(L, j)

\* The indents of the lines increase strictly from 0
Increasing(L) ==
    /\ L # <<>> /\ L[1].indent = 0
    /\ \A j \in 2..Len(L) : L[j].indent > L[j - 1].indent

\* Number of whitespace separated tokens of a string: the positions where a
\* token starts
TokenCount(str) ==
    Cardinality({ i \in 1..Len(str) :
        /\ str[i] \notin Whitespace
        /\ (i = 1 \/ str[i - 1] \in Whitespace) })

\* Block i has a header of other than two tokens
BadHeader(p, i) == TokenCount(p[i].value) # 2

\* Block i has a field with sub-fields
NestedIn(p, i) == \E j \in 1..Len(p[i].sub) : p[i].sub[j].sub # <<>>

\* Some field of some block has sub-fields
AnyFieldNested(p) == \E i \in 1..Len(p) : NestedIn(p, i)

\* The first block with a bad header or a nested field, 0 if there is none
FirstBadBlock(p) ==
    LET bad == { i \in 1..Len(p) : BadHeader(p, i) \/ NestedIn(p, i) }
    IN  IF bad = {} THEN 0 ELSE CHOOSE i \in bad : \A k \in bad : i <= k

----------------------------------------------------------------------------
\* C1: in the tree parse_indent_level(0, lines) returns, the parent of every
\* significant line is the nearest preceding significant line of strictly
\* smaller indent (the top level if there is none) and children keep input
\* order; lines a, b, c, d at indents 0, 4, 8, 4 give
\* [[a, [[b, [[c, []]]], [d, []]]]].
C1_NearestParent ==
    ParseReturned =>
        /\ parse = TreesUnder(SigOf(input), 0)
        /\ input = ExampleFile =>
              parse = << Node(<<"a">>,
                           << Node(<<"b">>, << Node(<<"c">>, <<>>) >>),
                              Node(<<"d">>, <<>>) >>) >>

\* C1 witness: the example file has been parsed
C1_Witness == ParseReturned /\ input = ExampleFile /\ Len(parse) = 1

\* C2: the pre-order traversal of the returned tree is the sequence of the
\* contents of the significant lines of the file, each once, in input order,
\* also when one dedent line closes several levels.
C2_PreOrderIsInput ==
    ParseReturned =>
        LET L == SigOf(input)
        IN  PreOrder(parse) = [i \in 1..Len(L) |-> L[i].value]

\* C2 witness: a parsed file in which one dedent line closes two levels
C2_Witness ==
    /\ ParseReturned
    /\ Len(Strip(input)) = 4
    /\ [i \in 1..4 |-> IndentOf(Strip(input)[i])] = <<0, 1, 2, 0>>
    /\ Len(parse) = 2

\* C3: comment and blank lines, wherever they are and however indented, do
\* not change the outcome of parse_indent_level(0, lines): the tree returned,
\* or the failure, is that of the file with those lines removed.
C3_CommentTransparent ==
    ParseEnded =>
        LET ref == RunParse(Start(Strip(input)))
        IN  /\ Parsed <=> ref.stack = <<>>
            /\ Parsed => parse = ref.parse
            /\ ParseFailed =>
                  /\ err.type = ref.err.type
                  /\ err.message = ref.err.message

\* C3 witness: a parsed file with an indented comment line between a line and
\* its child, and a blank line
C3_Witness ==
    /\ ParseReturned
    /\ Len(input) = 4
    /\ IsComment(input[2]) /\ IndentOf(input[2]) = MaxIndent
    /\ IsBlank(input[4])
    /\ Len(parse) = 1 /\ Len(parse[1].sub) = 1

\* C4: a ParseFail of check() carries the 1-based physical line number of the
\* line read last, comment and blank lines counted, whether or not that line
\* was pushed back: the number of the failing significant line among the
\* significant lines plus the number of comment and blank lines before it.
C4_LineNumber ==
    (pc = "failed" /\ err.type = "ParseFail") =>
        LET j == NodeCount(stack) + 1
            n == err.line_no
        IN  /\ n = PhysicalLine(input, j)
            /\ n = j + n - Len(Strip(SubSeq(input, 1, n)))
            /\ IndentOf(input[n]) = last.indent
            /\ ContentOf(input[n]) = last.value

\* C4 witness: a check fails on the line after two comment or blank lines, one
\* of them before the first significant line; the line had been pushed back
\* and read again
C4_Witness ==
    /\ pc = "failed" /\ err.type = "ParseFail"
    /\ err.message = "Sub-fields already parsed"
    /\ err.line_no = 4
    /\ ~Significant(input[1]) /\ Len(Strip(input)) = 3

\* C5 as stated: three significant lines of strictly increasing indent, the
\* first at indent 0, make the parse fail with 'Sub-fields already parsed'.
C5_IncreasingFails ==
    (ParseEnded /\ ~LastUnterminated(input)
        /\ Len(SigOf(input)) = 3 /\ Increasing(SigOf(input)))
    => DuplicateNesting

\* C5, amended: the parse fails with 'Sub-fields already parsed' exactly when
\* the first line is at indent 0 and some line dedents to an indent strictly
\* between two open levels (indents 0, 8, 4), the failure naming the first such
\* line; lines of strictly increasing indent (0, 4, 8) are accepted and nest
\* one inside the other.
C5_DuplicateNesting ==
    ParseEnded =>
        LET L == Readable(input)
            bad == { j \in 1..Len(L) : BetweenLevels(L, j) }
        IN  /\ DuplicateNesting <=> (L # <<>> /\ L[1].indent = 0 /\ bad # {})
            /\ DuplicateNesting =>
                  err.line_no = PhysicalLine(input, CHOOSE j \in bad : \A k \in bad : j <= k)
            /\ (~LastUnterminated(input) /\ Increasing(L)) =>
                  /\ Parsed
                  /\ Len(parse) = 1
                  /\ Len(L) >= 2 => Len(parse[1].sub) = 1

\* C5 witness: the parse has failed on indents 0, 2, 1
C5_Witness ==
    /\ DuplicateNesting
    /\ Len(Strip(input)) = 3
    /\ [i \in 1..3 |-> IndentOf(Strip(input)[i])] = <<0, 2, 1>>

\* C6: the parse fails with 'Invalid indentation' exactly when the first
\* significant line is indented, which is when an indent increase meets an
\* empty result list; this happens in the outermost call only, a nested call
\* starting with a pushed back line at its own indent; a file whose first line
\* is indented fails so with line number 1.
C6_InvalidIndentation ==
    /\ ParseEnded =>
          LET L == Readable(input)
          IN  /\ InvalidIndentation <=> (L # <<>> /\ L[1].indent > 0)
              /\ InvalidIndentation =>
                    /\ Len(stack) = 1
                    /\ stack[1].result = <<>>
                    /\ last.indent > stack[1].new_indent
              /\ (input # <<>> /\ Readable(<<input[1]>>) # <<>> /\ IndentOf(input[1]) > 0)
                    => err = ParseFail(1, "Invalid indentation")
    /\ (pc = "parse" /\ Len(stack) > 1 /\ stack[Len(stack)].result = <<>>) =>
          undo /\ last.indent = stack[Len(stack)].new_indent

\* C6 witness: the first line of the file is indented and the parse has failed
\* on it
C6_Witness ==
    /\ InvalidIndentation
    /\ err.line_no = 1
    /\ IndentOf(input[1]) = MaxIndent

\* C7: every failure is a ParseFail with the 1-based line number of the line
\* under examination, rendered 'Line <N>: <message>'.
C7_EveryFailureIsParseFail ==
    pc = "failed" =>
        /\ err.type = "ParseFail"
        /\ err.line_no >= 1
        /\ ParseFailStr(err) = <<"Line ", line_no, ": ", err.message>>

\* C8 as stated: a last line without terminator aborts the parse, whatever the
\* line contains.
C8_UnterminatedAlwaysFails ==
    (ParseEnded /\ LastUnterminated(input)) => ParseFailed

\* C8, amended: a last line without terminator aborts the parse when it holds
\* significant content or only spaces (unless the parse failed before reaching
\* it, the failure is the assertion 'Unexpected end of input' for content and an
\* IndexError for spaces); an unterminated comment line is discarded like any
\* comment line, the outcome being that of the file without it.  The parse
\* raises no other exception than ParseFail for any other reason.
C8_UnterminatedFails ==
    ParseEnded =>
        LET n == Len(input)
            open == LastUnterminated(input)
        IN  /\ (open /\ ~IsComment(input[n])) =>
                  /\ ParseFailed
                  /\ err.type # "ParseFail" =>
                        /\ pos = n
                        /\ err.type = IF LStrip(input[n]) = <<>>
                                      THEN "IndexError" ELSE "AssertionError"
            /\ (open /\ IsComment(input[n])) =>
                  LET ref == RunParse(Start(SubSeq(input, 1, n - 1)))
                  IN  /\ Parsed <=> ref.stack = <<>>
                      /\ Parsed => parse = ref.parse
                      /\ ParseFailed => err = ref.err
            /\ (ParseFailed /\ err.type # "ParseFail") =>
                  open /\ ~IsComment(input[n])

\* C8 witness: a file whose last line is a comment without terminator has been
\* parsed
C8_Witness ==
    /\ ParseReturned
    /\ LastUnterminated(input)
    /\ IsComment(input[Len(input)])
    /\ pos = Len(input)
    /\ parse # <<>>

\* C9: parse_register_file fails whenever a field has sub-fields and returns
\* no mapping; when it returns every field was a leaf.  The failure is the
\* assertion, unless that block or an earlier one has a malformed header.
C9_FieldsAreLeaves ==
    Reduced =>
        /\ AnyFieldNested(parse) => pc = "failed"
        /\ pc = "done" => ~AnyFieldNested(parse)
        /\ (pc = "failed" /\ err.type = "AssertionError") <=>
              LET b == FirstBadBlock(parse)
              IN  b # 0 /\ ~BadHeader(parse, b)

\* C9 witness: the second block has a field with a sub-field and the
\* assertion has failed on it
C9_Witness ==
    /\ Reduced /\ pc = "failed" /\ err.type = "AssertionError"
    /\ idx = 1
    /\ \E j \in 1..Len(parse[2].sub) : parse[2].sub[j].sub # <<>>

\* C10: parse_register_file fails unless every top-level line splits on
\* whitespace into exactly two tokens; one token, or three or more, are
\* rejected and no mapping is returned.
C10_BlockHeader ==
    Reduced =>
        /\ (\E i \in 1..Len(parse) : BadHeader(parse, i)) => pc = "failed"
        /\ pc = "done" =>
              /\ \A i \in 1..Len(parse) : TokenCount(parse[i].value) = 2
              /\ idx = Len(parse)
        /\ (pc = "failed" /\ err.type = "ValueError") <=>
              LET b == FirstBadBlock(parse)
              IN  b # 0 /\ BadHeader(parse, b)

\* C10 witness: the second block has a header of three tokens and the
\* unpacking has failed on it
C10_Witness ==
    /\ Reduced /\ pc = "failed" /\ err.type = "ValueError"
    /\ idx = 1
    /\ TokenCount(parse[2].value) = 3

----------------------------------------------------------------------------
(* What the claims on the returned mapping speak of. *)

\* The least and the greatest element of a finite non-empty set of numbers
Min(S) == CHOOSE x \in S : \A y \in S : x <= y

Max(S) == CHOOSE x \in S : \A y \in S : x >= y

\* The characters of a string before its first whitespace character
FirstWord(str) ==
    LET ws == { i \in 1..Len(str) : str[i] \in Whitespace }
    IN  IF ws = {} THEN str ELSE SubSeq(str, 1, Min(ws) - 1)

\* The top-level nodes of the tree p whose header begins with the name reg
BlocksNamed(p, reg) == { i \in 1..Len(p) : FirstWord(p[i].value) = reg }

\* The register example of the header comment: '*REG 0', 'FPGA_VERSION 0'
RegExample ==
    << Node(<<"*", "R", "E", "G", " ", "0">>,
            << Node(<<"F", "P", "G", "A", "_", "V", "E", "R", "S", "I", "O", "N",
                      " ", "0">>, <<>>) >>) >>

RegExampleResult ==
    [reg \in { <<"*", "R", "E", "G">> } |->
        << <<"0">>,
           << << <<"F", "P", "G", "A", "_", "V", "E", "R", "S", "I", "O", "N">>,
                 <<"0">> >> >> >>]

\* C11: in the mapping parse_register_file returns, every field entry is a
\* field name and a value remainder: the field line split at its first run of
\* whitespace, the remainder kept as it is, the entries in the order of the
\* field lines; '*REG 0' with the field 'FPGA_VERSION 0' gives
\* {'*REG': ('0', [('FPGA_VERSION', '0')])}.
C11_FieldEntries ==
    /\ pc = "done" =>
          \A reg \in DOMAIN result :
              LET b == Max(BlocksNamed(parse, reg))
                  fields == result[reg][2]
              IN  /\ Len(fields) = Len(parse[b].sub)
                  /\ \A i \in 1..Len(fields) :
                        LET v == parse[b].sub[i].value
                            e == fields[i]
                        IN  /\ Len(e) = 2
                            /\ e[1] = FirstWord(v)
                            /\ e[2][1] \notin Whitespace
                            /\ \E k \in 1..Len(v) : v = e[1] \o Spaces(k) \o e[2]
    /\ Reduce(RegExample).pc = "done"
    /\ Reduce(RegExample).result = RegExampleResult

\* C12: when a block name occurs in several top-level lines the returned
\* mapping holds for it the base and the fields of the last occurrence, the
\* call does not fail because of it, and the names of the mapping are the
\* names of the blocks, each with the entry of its own last occurrence.
C12_LastWriteWins ==
    (Parsed /\ pc \in {"done", "failed"}) =>
        /\ (\A i \in 1..Len(parse) : TokenCount(parse[i].value) = 2 /\ ~NestedIn(parse, i))
              => pc = "done"
        /\ pc = "done" =>
              /\ DOMAIN result = { FirstWord(parse[i].value) : i \in 1..Len(parse) }
              /\ \A reg \in DOMAIN result :
                    LET b == Max(BlocksNamed(parse, reg))
                        entry == result[reg]
                    IN  /\ parse[b].value = reg \o <<SP>> \o entry[1]
                        /\ Len(entry[2]) = Len(parse[b].sub)
                        /\ \A i \in 1..Len(entry[2]) :
                              entry[2][i][1] = FirstWord(parse[b].sub[i].value)

\* C12 witness: a mapping returned for three blocks, the first and the third
\* of one name with different bases and fields, the second of another name
C12_Witness ==
    /\ pc = "done" /\ Len(parse) = 3
    /\ FirstWord(parse[1].value) = FirstWord(parse[3].value)
    /\ FirstWord(parse[2].value) # FirstWord(parse[1].value)
    /\ parse[1].value # parse[3].value
    /\ parse[1].sub # parse[3].sub
    /\ parse[3].sub # <<>>
    /\ result[FirstWord(parse[3].value)][2] # <<>>

----------------------------------------------------------------------------
(* What the claim on fixup_fields speaks of. *)

\* The positions of a string where a token starts
WordStarts(str) ==
    { i \in 1..Len(str) : str[i] \notin Whitespace /\ (i = 1 \/ str[i - 1] \in Whitespace) }

\* The token of a string that starts at position i
WordFrom(str, i) ==
    SubSeq(str, i, Min({ j \in i..Len(str) : j = Len(str) \/ str[j + 1] \in Whitespace }))

\* The tokens of a string, in order
Words(str) ==
    LET starts == Sorted(WordStarts(str))
    IN  [k \in 1..Len(starts) |-> WordFrom(str, starts[k])]

\* The integers written by the tokens of FixTokens
KnownInts == { <<"8">>, <<"1", "4">>, <<"2", "0">> }

KnownInt(tok) ==
    CASE tok = <<"8">> -> 8
      [] tok = <<"1", "4">> -> 14
      [] tok = <<"2", "0">> -> 20

Dots == <<".", ".">>

\* C13: fixup_fields maps a value of one integer token 'start' to
\* (name, start, 1) and a value of three tokens 'start .. end' to
\* (name, start, end - start + 1); a value of any other number of tokens, or
\* with a middle token other than '..', fails; '8 .. 14' gives the count 7 and
\* '8 .. 14 .. 20' fails.
C13_Fixup ==
    fix_out.kind # "none" =>
        LET w == Words(fix_in.value)
        IN  /\ (Len(w) = 1 /\ w[1] \in KnownInts) =>
                  fix_out = Fixed(fix_in.name, KnownInt(w[1]), 1)
            /\ (Len(w) = 3 /\ w[2] = Dots /\ w[1] \in KnownInts /\ w[3] \in KnownInts) =>
                  fix_out = Fixed(fix_in.name, KnownInt(w[1]),
                                  KnownInt(w[3]) - KnownInt(w[1]) + 1)
            /\ (Len(w) \notin {1, 3} \/ (Len(w) = 3 /\ w[2] # Dots)) =>
                  fix_out.kind = "raise"
            /\ fix_out.kind = "return" =>
                  /\ Len(w) \in {1, 3}
                  /\ fix_out.name = fix_in.name
            /\ fix_in.value = Join(<< <<"8">>, Dots, <<"1", "4">> >>) =>
                  fix_out = Fixed(fix_in.name, 8, 7)
            /\ fix_in.value = Join(<< <<"8">>, Dots, <<"1", "4">>, Dots, <<"2", "0">> >>) =>
                  fix_out.kind = "raise"

\* C13 witness: the call made on '8 .. 14' has returned the count 7
C13_Witness ==
    /\ fix_in.value = <<"8", " ", ".", ".", " ", "1", "4">>
    /\ fix_out.kind = "return"
    /\ fix_out.start = 8
    /\ fix_out.count = 7

\* C14: two parses, each with its own read_lines object, interleaved step by
\* step in any order, give what each gives when run alone: at every moment
\* each run is in a state of its run alone (last line, undo flag, line_no and
\* file position included) and ends as that run ends.
C14_Independent ==
    \A i \in DOMAIN runs :
        LET alone == RunParse(Start(runs[i].input))
        IN  /\ RunParse(runs[i]) = alone
            /\ runs[i].pc # "parse" => runs[i] = alone
            /\ runs[i].line_no = runs[i].pos
            /\ runs[i].pos > 0 =>
                  \/ runs[i].last = None
                  \/ \E k \in 1..runs[i].pos :
                        /\ Significant(runs[i].input[k])
                        /\ runs[i].last.value = ContentOf(runs[i].input[k])

\* C14 witness: both runs are under way on different files, at different
\* lines, one with a line pushed back and the other without
C14_Witness ==
    /\ DOMAIN runs = {1, 2}
    /\ runs[1].pc = "parse" /\ runs[2].pc = "parse"
    /\ runs[1].input # runs[2].input
    /\ runs[1].undo /\ ~runs[2].undo
    /\ runs[1].line_no > runs[2].line_no
    /\ runs[2].line_no > 0

----------------------------------------------------------------------------
(* What the claims on the indents of a tree speak of. *)

\* The trees are those of the lines of L from line k on, in pre-order; their
\* roots are all at the indent ind, and the children of every node are at one
\* indent greater than the node's
RECURSIVE LevelOK(_, _, _, _)
LevelOK(trees, L, k, ind) ==
    IF trees = <<>> THEN TRUE
    ELSE LET t == Head(trees)
             n == Len(PreOrder(t.sub))
         IN  /\ k + n <= Len(L)
             /\ L[k].indent = ind
             /\ L[k].value = t.value
             /\ t.sub # <<>> =>
                   /\ L[k + 1].indent > ind
                   /\ LevelOK(t.sub, L, k + 1, L[k + 1].indent)
             /\ LevelOK(Tail(trees), L, k + 1 + n, ind)

\* C15: in the tree parse_indent_level(0, lines) returns, the children of a
\* node are all at one indent, greater than the indent of the node, and the
\* top-level nodes are at indent 0; a file with a dedent to an indent that is
\* no open level is never accepted.
C15_ChildIndents ==
    /\ ParseReturned =>
          /\ Len(PreOrder(parse)) = Len(SigOf(input))
          /\ LevelOK(parse, SigOf(input), 1, 0)
    /\ ParseEnded =>
          LET L == Readable(input)
          IN  (\E j \in 1..Len(L) : BetweenLevels(L, j)) => ParseFailed

\* C15 witness: a returned tree whose first node is at indent 0 and has two
\* children at the greatest indent, followed by a second top-level node
C15_Witness ==
    /\ ParseReturned
    /\ Len(parse) = 2
    /\ Len(parse[1].sub) = 2
    /\ Len(SigOf(input)) = 4
    /\ SigOf(input)[2].indent = MaxIndent
    /\ SigOf(input)[3].indent = MaxIndent

----------------------------------------------------------------------------
(* What the claim on undo() speaks of. *)

\* The physical line the file iterator handed out last, as read_line returns it
LineRead == [indent |-> IndentOf(input[pos]), value |-> ContentOf(input[pos])]

\* A line is pushed back: it is the line returned by the last next(), which
\* was the last line read
PushedBack ==
    undo =>
        /\ last # None
        /\ pos >= 1 /\ line_no >= 1
        /\ Significant(input[pos])
        /\ last = LineRead

\* Every line returned by next() is in a result list, or is the one line
\* pushed back: one level of undo loses no line and repeats none
NoLineLost ==
    pc = "parse" =>
        NodeCount(stack) + (IF undo THEN 1 ELSE 0) = Len(SigOf(SubSeq(input, 1, pos)))

\* A step of parse_indent_level that starts with a line pushed back: next()
\* returns that line, reading nothing and leaving line_no alone, and the line
\* is dealt with: appended, or pushed back again by the one undo() of this
\* iteration on the return to the caller, or refused by check()
AfterUndo ==
    (undo /\ pc = "parse") =>
        /\ input' = input /\ pos' = pos /\ line_no' = line_no /\ ended' = ended
        /\ last' = last
        /\ \/ /\ ~undo'
              /\ stack' # <<>>
              /\ stack'[Len(stack')].result # <<>>
              /\ stack'[Len(stack')].result[Len(stack'[Len(stack')].result)]
                    = Node(last.value, <<>>)
           \/ /\ undo'
              /\ Len(stack') = Len(stack) - 1
              /\ stack' # <<>>
              /\ pc' = "parse"
           \/ /\ undo'
              /\ pc' = "failed"
              /\ err' = ParseFail(line_no, "Sub-fields already parsed")

\* A step of parse_indent_level that pushes a line back with none pushed back
\* before: its next() has read the line
UndoAfterNext ==
    (~undo /\ undo' /\ pc = "parse") =>
        /\ pos' > pos
        /\ line_no' = line_no + (pos' - pos)
        /\ Significant(input'[pos'])
        /\ last' = [indent |-> IndentOf(input'[pos']), value |-> ContentOf(input'[pos'])]

\* C16: during a run of parse_indent_level undo() is never called twice
\* without a next() in between and never before the first next(): the line
\* pushed back is always the one line returned last; the next() that follows
\* an undo() returns that same line without reading the input or changing
\* line_no.
C16_OneLevelUndo ==
    /\ [](PushedBack /\ NoLineLost)
    /\ [][AfterUndo /\ UndoAfterNext]_vars

\* C16 witness: a nested call has appended the line that was pushed back for
\* it, and is at the second line of the file still
C16_Witness ==
    /\ pc = "parse" /\ ~undo
    /\ Len(stack) = 2
    /\ stack[2].result = << Node(last.value, <<>>) >>
    /\ stack[2].new_indent = last.indent
    /\ pos = 2 /\ line_no = 2

----------------------------------------------------------------------------
(* What the claim on termination speaks of. *)

\* The run has left parse_indent_level: by an exception, or by the return of
\* the outermost call
RunFailed == runs[1].pc = "failed" /\ runs[1].stack # <<>>

RunReturned == runs[1].pc = "reduce" /\ runs[1].stack = <<>>

\* On the return of parse_indent_level(0, lines) every line of the file has
\* been read, none is pushed back, and every significant line is in the tree
ReadToExhaustion ==
    RunReturned =>
        /\ runs[1].pos = Len(runs[1].input)
        /\ runs[1].line_no = Len(runs[1].input)
        /\ ~runs[1].undo
        /\ Len(PreOrder(runs[1].parse)) = Len(SigOf(runs[1].input))

\* The outermost call returns at the end of the file only, never on a dedent
NoEarlyReturn ==
    (runs[1].pc = "parse" /\ runs'[1].stack = <<>>) =>
        /\ Len(runs[1].stack) = 1
        /\ ~runs[1].undo /\ ~runs'[1].undo
        /\ runs'[1].pos = Len(runs[1].input)
        /\ runs'[1].last = runs[1].last

\* Once the file is exhausted every step ends one open call
EndEndsLevels ==
    (runs[1].pc = "parse" /\ runs[1].pos = Len(runs[1].input) /\ ~runs[1].undo) =>
        /\ Len(runs'[1].stack) = Len(runs[1].stack) - 1
        /\ runs'[1].pos = runs[1].pos
        /\ runs'[1].pc = IF Len(runs[1].stack) = 1 THEN "reduce" ELSE "parse"

\* C17: for every finite input parse_indent_level(0, lines) terminates: it
\* raises, or it returns after the file is exhausted, the end of the input
\* ending every open call; on the return no line is unread and none is pushed
\* back, the outermost call never returning on a dedent.
C17_Terminates ==
    /\ <>(runs[1].pc # "parse")
    /\ [](runs[1].pc # "parse" => (RunFailed \/ RunReturned))
    /\ []ReadToExhaustion
    /\ [][NoEarlyReturn /\ EndEndsLevels]_vars

\* C17 witness: the end of the input has ended three open calls and the parse
\* of a file of MaxLines lines has returned
C17_Witness ==
    /\ RunReturned
    /\ Len(runs[1].input) = MaxLines
    /\ Len(runs[1].parse) = 1
    /\ Len(runs[1].parse[1].sub) = 1
    /\ Len(runs[1].parse[1].sub[1].sub) = 1

----------------------------------------------------------------------------
(* What the claim on the simulated PCAP block speaks of. *)

\* The writes of register reg of block 0 among the writes made, by position
WritesOf(reg) == { i \in 1..Len(written) : written[i] = <<0, reg>> }

\* The position of the last write of one of the registers regs of block 0,
\* 0 if there is none
LastWrite(regs) ==
    LET at == UNION { WritesOf(reg) : reg \in regs }
    IN  IF at = {} THEN 0 ELSE Max(at)

\* The step is a call of write_reg on the block and register t
Writes(t) == written' = Append(written, t)

\* The step is a call of read_data
Reads == written' = written

CountersUnchanged ==
    /\ active' = active
    /\ capture_count' = capture_count
    /\ sample_count' = sample_count

\* C18: after any sequence of register writes, active is true exactly when
\* the last write among PCAP_ARM (13) and PCAP_DISARM (14) was PCAP_ARM, and
\* false when there was none; capture_count is the number of writes of
\* PCAP_WRITE (9) since the last write of PCAP_START_WRITE (8), which also
\* sets sample_count to 0; a write of any other register changes nothing;
\* read_data returns None whenever active is false and leaves the counters
\* alone.
C18_Pcap ==
    /\ [](/\ active <=> (LastWrite({13, 14}) # 0 /\ written[LastWrite({13, 14})] = <<0, 13>>)
          /\ capture_count = Cardinality({ i \in WritesOf(9) : i > LastWrite({8}) }))
    /\ [][/\ Writes(<<0, 8>>) => (sample_count' = 0 /\ capture_count' = 0 /\ active' = active)
          /\ (\E t \in WriteTargets \ { <<0, 8>>, <<0, 9>>, <<0, 13>>, <<0, 14>> } : Writes(t))
                => (CountersUnchanged /\ data' = data)
          /\ (Reads /\ ~active) => (data'.kind = "None" /\ CountersUnchanged)
          /\ (Reads /\ active) => data'.kind = "bytes"
       ]_vars

\* C18 witness: armed, one capture written, one sample read, then disarmed:
\* read_data has returned None
C18_Witness ==
    /\ ~active
    /\ written = << <<0, 13>>, <<0, 9>>, <<0, 14>> >>
    /\ capture_count = 1
    /\ sample_count = 1
    /\ data = [kind |-> "None"]

====
